---------------------------- MODULE Spec2Model ----------------------------
(***************************************************************************)
(* A model of ambisync (src/ambisync.py): the mode tokens SYNC / ASYNC,    *)
(* the args container, the two plan interpreters _do_sync_call and         *)
(* _do_async_call, and AmbisyncBaseClass (constructor and the _ambisync    *)
(* entry point).  Names used by the specification document:                *)
(*   Blocking / Suspending   = SYNC / ASYNC                                *)
(*   ArgBundle               = args                                        *)
(*   OperationHost           = AmbisyncBaseClass                           *)
(*   runPlan                 = _ambisync                                   *)
(*   ConfigurationError      = AmbisyncError                               *)
(* Python objects are records tagged by the field t.                       *)
(***************************************************************************)
EXTENDS Integers, Sequences, FiniteSets, TLC

VARIABLES
    hosts,      \* per host object: the outcome of __init__ and _ambisync_mode
    plan_spec,  \* the *plan_spec tuple the method body hands to _ambisync
    runs,       \* per call of the entry point: the interpreter's frame
    cur         \* the run that holds the (single) thread, 0 when none does

vars == <<hosts, plan_spec, runs, cur>>

(***************************************************************************)
(* Bounds                                                                  *)
(***************************************************************************)
MaxPlanLen == 3     \* longest plan a method body hands to _ambisync

\* the two host objects of example.py (sync_test, sync_test_2) and the two
\* calls of my_method made on them (main_synctest, main_asynctest); runs
\* share nothing but the hosts' mode and the plan, which they only read
HostIds == {1, 2}
RunIds == {1, 2}

(***************************************************************************)
(* Python values                                                           *)
(***************************************************************************)
None == [t |-> "none"]
IntV(n) == [t |-> "int", v |-> n]
StrV(s) == [t |-> "str", v |-> s]
Func(name) == [t |-> "func", name |-> name]
TupleV(items) == [t |-> "tuple", items |-> items]

\* class args: __init__ stores the positional values and the named values
\* (kwds is a sequence of <<name, value>> pairs with unique names).
Args(a, k) == [t |-> "args", args |-> a, kwds |-> k]

\* the object a call of an `async def` function returns: nothing has run yet
Coroutine(name, env) == [t |-> "coroutine", name |-> name, env |-> env]

\* outcomes of evaluating an expression: a value, or a raised exception
\* a bound ambisync method of host h: the object  h.my_method
Method(h) == [t |-> "method", host |-> h, name |-> "my_method"]

Ret(v) == [ok |-> TRUE, val |-> v]
Raise(e) == [ok |-> FALSE, err |-> e]

(***************************************************************************)
(* Mode tokens.  SYNC and ASYNC are module-level singletons and every test *)
(* on them is an identity test (`is`), modelled on the object id.          *)
(***************************************************************************)
SYNC == [t |-> "Mode", cls |-> "_Sync", id |-> 1]
ASYNC == [t |-> "Mode", cls |-> "_Async", id |-> 2]

Is(a, b) == a.id = b.id

\* what a caller may pass as `mode`: the two tokens, a second instance of
\* _Sync (equal class, other identity), None, and the string 'SYNC'
ModeInputs ==
    { SYNC, ASYNC,
      [t |-> "Mode", cls |-> "_Sync", id |-> 3],
      [t |-> "none", cls |-> "NoneType", id |-> 4],
      [t |-> "str", cls |-> "str", id |-> 5] }

(***************************************************************************)
(* Step routines.  A routine is a Python function object, named here by a  *)
(* string; Routine gives its definition: `def` or `async def`, its         *)
(* parameter names, and what its body does with the bound parameters.      *)
(* sub1, sync_sub2, async_sub2_example and sub3 are the subroutines of     *)
(* SomeClass.my_method; async_sub2 is the suspending twin of sync_sub2     *)
(* with the same result; the others are the small test routines the        *)
(* properties need (an opaque result, named values, a raising pair).       *)
(***************************************************************************)
Routine(name) ==
    CASE name = "sub1" ->
           [kind |-> "def", params |-> <<>>,
            body |-> [t |-> "ret", val |-> Args(<<IntV(5)>>, <<>>)]]
      [] name = "sync_sub2" ->
           [kind |-> "def", params |-> <<"a">>,
            body |-> [t |-> "plus", k |-> 6, s |-> "foo"]]
      [] name = "async_sub2" ->
           [kind |-> "async", params |-> <<"a">>,
            body |-> [t |-> "plus", k |-> 6, s |-> "foo"]]
      [] name = "async_sub2_example" ->
           [kind |-> "async", params |-> <<"a">>,
            body |-> [t |-> "plus", k |-> 3, s |-> "bar"]]
      [] name = "sub3" ->
           [kind |-> "def", params |-> <<"a", "b">>,
            body |-> [t |-> "ret", val |-> StrV("done")]]
      [] name = "opaque" ->
           [kind |-> "def", params |-> <<>>,
            body |-> [t |-> "ret", val |-> IntV(7)]]
      [] name = "named" ->
           [kind |-> "def", params |-> <<>>,
            body |-> [t |-> "ret",
                      val |-> Args(<<IntV(11)>>, << <<"b", StrV("foo")>> >>)]]
      [] name = "boom" ->
           [kind |-> "def", params |-> <<>>,
            body |-> [t |-> "raise", err |-> "E1"]]
      [] name = "async_boom" ->
           [kind |-> "async", params |-> <<>>,
            body |-> [t |-> "raise", err |-> "E1"]]
      [] name = "async_sub1" ->
           [kind |-> "async", params |-> <<>>,
            body |-> [t |-> "ret", val |-> Args(<<IntV(5)>>, <<>>)]]

\* the names of the named values of a call
KwNames(kwds) == { kwds[j][1] : j \in DOMAIN kwds }

\* Python's argument binding for a function without defaults or varargs:
\* positional values fill the leading parameters, each named value must name
\* one of the remaining parameters, and every parameter must be filled.
CanBind(params, pos, kwds) ==
    /\ Len(pos) <= Len(params)
    /\ Len(pos) + Len(kwds) = Len(params)
    /\ KwNames(kwds) \subseteq { params[j] : j \in (Len(pos) + 1)..Len(params) }

\* the value bound to each parameter, in parameter order
BindEnv(params, pos, kwds) ==
    [ j \in 1..Len(params) |->
        IF j <= Len(pos)
        THEN pos[j]
        ELSE LET n == CHOOSE m \in DOMAIN kwds : kwds[m][1] = params[j]
             IN  kwds[n][2] ]

\* running the body of routine `name` with its parameters bound to env
RunBody(name, env) ==
    LET b == Routine(name).body IN
    CASE b.t = "ret" -> Ret(b.val)
      [] b.t = "raise" -> Raise(b.err)
      [] b.t = "plus" ->
           IF env[1].t = "int"
           THEN Ret(Args(<<IntV(env[1].v + b.k), StrV(b.s)>>, <<>>))
           ELSE Raise("TypeError")

\* SomeClass.my_method(self, myarg): the plan its body hands to _ambisync
my_method_params == <<"myarg">>

my_method_plan ==
    << TupleV(<<Func("sub1")>>),
       TupleV(<<Func("sync_sub2"), Func("async_sub2_example")>>),
       TupleV(<<Func("sub3")>>) >>

\* the outcome of the body of my_method on host h, and of awaiting the
\* coroutine object _do_async_call returned for it (both defined with the
\* interpreters below); a call in a plan may run a plan that makes calls
RECURSIVE my_method(_)
RECURSIVE await_do_async_call(_)
RECURSIVE CallObj(_, _, _)
RECURSIVE AwaitResult(_)

\* the outcome of the call expression  obj(*pos, **kwds)
CallObj(obj, pos, kwds) ==
    IF obj.t = "method"
    THEN IF ~CanBind(my_method_params, pos, kwds)
         THEN Raise("TypeError")                  \* arguments do not match
         ELSE my_method(obj.host)
    ELSE
    IF obj.t # "func"
    THEN Raise("TypeError")                       \* object is not callable
    ELSE LET r == Routine(obj.name) IN
         IF ~CanBind(r.params, pos, kwds)
         THEN Raise("TypeError")                  \* arguments do not match
         ELSE IF r.kind = "async"
              THEN Ret(Coroutine(obj.name, BindEnv(r.params, pos, kwds)))
              ELSE RunBody(obj.name, BindEnv(r.params, pos, kwds))

\* the expression  await v  once the awaited object has run to its end
AwaitResult(v) ==
    IF v.t = "coroutine"
    THEN IF v.name = "_do_async_call"
         THEN await_do_async_call(v)
         ELSE RunBody(v.name, v.env)
    ELSE Raise("TypeError")

\* the subscript expression  obj[n]  (n counted from 0)
Subscript(obj, n) ==
    IF obj.t = "tuple"
    THEN IF n < Len(obj.items) THEN Ret(obj.items[n + 1]) ELSE Raise("IndexError")
    ELSE Raise("TypeError")                       \* object is not subscriptable

(***************************************************************************)
(* class args and _call_with_args                                          *)
(***************************************************************************)
\* a call  func(*pos, **kwds): what was called, with which arguments, and
\* the outcome of the call
Call(func, pos, kwds) ==
    [f |-> func, args |-> pos, kwds |-> kwds, out |-> CallObj(func, pos, kwds)]

\* call_with passing the positional values only:  func(*self.args)
call_with_positional(self, func) == Call(func, self.args, <<>>)

\* args.call_with:  return func(*self.args, **self.kwds)
call_with(self, func) == Call(func, self.args, self.kwds)

\* _call_with_args handing a value that is not an args to func as its
\* single argument
call_with_args_passthrough(func, args_obj) ==
    IF args_obj.t = "args"
    THEN call_with(args_obj, func)
    ELSE IF args_obj.t = "none"
         THEN Call(func, <<>>, <<>>)
         ELSE Call(func, <<args_obj>>, <<>>)

\* _call_with_args
call_with_args(func, args_obj) ==
    IF args_obj.t = "args"
    THEN call_with(args_obj, func)
    ELSE Call(func, <<>>, <<>>)

(***************************************************************************)
(* Resolving a plan entry to the subroutine to call                        *)
(***************************************************************************)
\* SyncSubroutine with  except (TypeError, IndexError)
SyncSubroutine_catchall(subroutine_spec) ==
    LET s0 == Subscript(subroutine_spec, 0) IN
    IF s0.ok
    THEN [ok |-> TRUE, subroutine |-> s0.val, slot |-> 0]
    ELSE [ok |-> TRUE, subroutine |-> subroutine_spec, slot |-> -1]

\* _do_sync_call, the try/except around subroutine_spec[0]
SyncSubroutine(subroutine_spec) ==
    LET s0 == Subscript(subroutine_spec, 0) IN
    IF s0.ok
    THEN [ok |-> TRUE, subroutine |-> s0.val, slot |-> 0]
    ELSE IF s0.err = "TypeError"
         THEN [ok |-> TRUE, subroutine |-> subroutine_spec, slot |-> -1]
         ELSE [ok |-> FALSE, err |-> s0.err]

\* AsyncSubroutine awaiting element 0 of a 2-tuple instead of element 1
AsyncSubroutine_first(subroutine_spec) ==
    LET s1 == Subscript(subroutine_spec, 1)
        s0 == Subscript(subroutine_spec, 0)
    IN  IF s1.ok
        THEN [ok |-> TRUE, subroutine |-> s0.val, sync |-> FALSE, slot |-> 0]
        ELSE IF s1.err = "IndexError"
             THEN IF s0.ok
                  THEN [ok |-> TRUE, subroutine |-> s0.val, sync |-> TRUE, slot |-> 0]
                  ELSE [ok |-> FALSE, err |-> s0.err]
             ELSE [ok |-> TRUE, subroutine |-> subroutine_spec, sync |-> TRUE,
                   slot |-> -1]

\* AsyncSubroutine with the call of every entry awaited (sync never set)
AsyncSubroutine_awaitall(subroutine_spec) ==
    LET s1 == Subscript(subroutine_spec, 1)
        s0 == Subscript(subroutine_spec, 0)
    IN  IF s1.ok
        THEN [ok |-> TRUE, subroutine |-> s1.val, sync |-> FALSE, slot |-> 1]
        ELSE IF s1.err = "IndexError"
             THEN IF s0.ok
                  THEN [ok |-> TRUE, subroutine |-> s0.val, sync |-> FALSE, slot |-> 0]
                  ELSE [ok |-> FALSE, err |-> s0.err]
             ELSE [ok |-> TRUE, subroutine |-> subroutine_spec, sync |-> FALSE,
                   slot |-> -1]

\* _do_async_call, the try/except around subroutine_spec[1]; sync tells
\* whether the call is made without await
AsyncSubroutine(subroutine_spec) ==
    LET s1 == Subscript(subroutine_spec, 1)
        s0 == Subscript(subroutine_spec, 0)
    IN  IF s1.ok
        THEN [ok |-> TRUE, subroutine |-> s1.val, sync |-> FALSE, slot |-> 1]
        ELSE IF s1.err = "IndexError"
             THEN IF s0.ok
                  THEN [ok |-> TRUE, subroutine |-> s0.val, sync |-> TRUE, slot |-> 0]
                  ELSE [ok |-> FALSE, err |-> s0.err]
             ELSE [ok |-> TRUE, subroutine |-> subroutine_spec, sync |-> TRUE,
                   slot |-> -1]

(***************************************************************************)
(* Plans: the entries a method body may hand to _ambisync                  *)
(***************************************************************************)
\* a bare routine, a 1-tuple, or a 2-tuple (sync subroutine, async coroutine)
WellFormedEntries ==
    { TupleV(<<Func("sub1")>>),
      TupleV(<<Func("sync_sub2"), Func("async_sub2")>>),
      TupleV(<<Func("sync_sub2"), Func("async_sub2_example")>>),
      TupleV(<<Func("sub3")>>),
      Func("opaque"),
      TupleV(<<Func("boom"), Func("async_boom")>>),
      TupleV(<<Func("named")>>) }

\* an empty tuple, a tuple with a member that cannot be called, a 3-tuple
MalformedEntries ==
    { TupleV(<<>>),
      TupleV(<<Func("sub1"), IntV(5)>>),
      TupleV(<<Func("sub1"), Func("async_sub1"), Func("sub3")>>) }

SeqsUpTo(S, n) == UNION { [1..m -> S] : m \in 0..n }

Plans == SeqsUpTo(WellFormedEntries, MaxPlanLen)

\* plans with at least one malformed entry among a few well-formed ones
CoreEntries ==
    { TupleV(<<Func("sub1")>>),
      TupleV(<<Func("sync_sub2"), Func("async_sub2")>>),
      TupleV(<<Func("sub3")>>) }

IsMalformedPlan(p) == \E j \in DOMAIN p : p[j] \in MalformedEntries

MalformedPlans ==
    { p \in SeqsUpTo(CoreEntries \cup MalformedEntries, MaxPlanLen) :
        IsMalformedPlan(p) }

(***************************************************************************)
(* AmbisyncBaseClass.__init__                                              *)
(***************************************************************************)
NoHost == [st |-> "none", ambisync_mode |-> None, err |-> "none"]

\* __init__ testing the class of mode (isinstance) instead of its identity
BaseClassInit_byclass(mode) ==
    IF mode.cls \notin {"_Sync", "_Async"}
    THEN [st |-> "raised", ambisync_mode |-> None, err |-> "AmbisyncError"]
    ELSE [st |-> "ok", ambisync_mode |-> mode, err |-> "none"]

\* __init__ storing whatever mode it is given, without the check
BaseClassInit_unchecked(mode) ==
    [st |-> "ok", ambisync_mode |-> mode, err |-> "none"]

\* the host object after __init__(mode): either the exception it raised, or
\* the object with its _ambisync_mode attribute set
BaseClassInit(mode) ==
    IF ~Is(mode, SYNC) /\ ~Is(mode, ASYNC)
    THEN [st |-> "raised", ambisync_mode |-> None, err |-> "AmbisyncError"]
    ELSE [st |-> "ok", ambisync_mode |-> mode, err |-> "none"]

Construct(h, mode) ==
    /\ hosts[h].st = "none"
    /\ \A q \in HostIds : q < h => hosts[q].st # "none"
    /\ cur = 0
    /\ hosts' = [hosts EXCEPT ![h] = BaseClassInit(mode)]
    /\ UNCHANGED <<plan_spec, runs, cur>>

(***************************************************************************)
(* One call of the entry point and the interpreter frame it creates.       *)
(*   st     : idle, created (coroutine object not yet driven), running,    *)
(*            suspended (inside `await`), completed, failed                *)
(*   entry  : what the call of _ambisync itself did: none, active (has not *)
(*            returned yet), returned, handle (returned a coroutine        *)
(*            object), raised                                              *)
(*   i      : number of plan entries the loop has finished                 *)
(*   ret    : the local variable ret                                       *)
(*   log    : the calls of _call_with_args made so far                     *)
(*   hist   : the values assigned to ret so far, one per finished entry    *)
(***************************************************************************)
NoResult == [t |-> "unset"]

\* IdleRun with  ret = args()  as the first value of ret
IdleRun_argsret ==
    [st |-> "idle", entry |-> "none", interp |-> "none", host |-> 0, i |-> 0,
     ret |-> Args(<<>>, <<>>), awaiting |-> None, result |-> NoResult,
     err |-> "none", log |-> <<>>, hist |-> <<>>]

IdleRun ==
    [st |-> "idle", entry |-> "none", interp |-> "none", host |-> 0, i |-> 0,
     ret |-> None, awaiting |-> None, result |-> NoResult, err |-> "none",
     log |-> <<>>, hist |-> <<>>]

\* the frame after an exception e escapes the interpreter
Failed(f, e) ==
    [f EXCEPT !.st = "failed", !.err = e, !.ret = None, !.awaiting = None,
              !.entry = IF f.interp = "sync" THEN "raised" ELSE f.entry]

\* Returned with the args rule applied to the final value as well: an args
\* is not handed back as it is
Returned_unwrapped(f) ==
    [f EXCEPT !.st = "completed",
              !.result = IF f.ret.t = "args" THEN None ELSE f.ret,
              !.ret = None,
              !.entry = IF f.interp = "sync" THEN "returned" ELSE f.entry]

\* the frame after `return ret`
Returned(f) ==
    [f EXCEPT !.st = "completed", !.result = f.ret, !.ret = None,
              !.entry = IF f.interp = "sync" THEN "returned" ELSE f.entry]

\* Assigned with a loop that stays on the entry it has just finished
Assigned_stay(f, v) ==
    [f EXCEPT !.st = "running", !.ret = v, !.awaiting = None,
              !.hist = Append(f.hist, v)]

\* the frame after  ret = v  ends the iteration on the current plan entry
Assigned(f, v) ==
    [f EXCEPT !.st = "running", !.ret = v, !.i = f.i + 1, !.awaiting = None,
              !.hist = Append(f.hist, v)]

\* the calls made inside a call whose outcome is out: those of the plan of
\* an ambisync method that ran within it, none for a plain routine
InnerCalls(out) == IF "calls" \in DOMAIN out THEN out.calls ELSE <<>>

\* the frame after the call c was made for the current plan entry, which
\* was resolved to element `slot` of the entry (-1: the entry itself)
Called(f, slot, c) ==
    [f EXCEPT !.log = Append(f.log, [step |-> f.i + 1, slot |-> slot,
                                     f |-> c.f, args |-> c.args,
                                     kwds |-> c.kwds,
                                     inner |-> InnerCalls(c.out)])]

\* _ambisync running the plan before it returns in ASYNC mode as well
ambisync_eager(self, h) ==
    IF Is(self.ambisync_mode, SYNC) \/ Is(self.ambisync_mode, ASYNC)
    THEN [IdleRun EXCEPT !.st = "running", !.entry = "active",
                         !.interp = "sync", !.host = h]
    ELSE [IdleRun EXCEPT !.st = "failed", !.entry = "raised",
                         !.err = "RuntimeError", !.host = h]

\* _ambisync starting the coroutine before it hands it back in ASYNC mode
ambisync_autostart(self, h) ==
    IF Is(self.ambisync_mode, SYNC)
    THEN [IdleRun EXCEPT !.st = "running", !.entry = "active",
                         !.interp = "sync", !.host = h]
    ELSE IF Is(self.ambisync_mode, ASYNC)
         THEN [IdleRun EXCEPT !.st = "running", !.entry = "handle",
                              !.interp = "async", !.host = h]
         ELSE [IdleRun EXCEPT !.st = "failed", !.entry = "raised",
                              !.err = "RuntimeError", !.host = h]

\* AmbisyncBaseClass._ambisync: dispatch on self._ambisync_mode
ambisync(self, h) ==
    IF Is(self.ambisync_mode, SYNC)
    THEN [IdleRun EXCEPT !.st = "running", !.entry = "active",
                         !.interp = "sync", !.host = h]
    ELSE IF Is(self.ambisync_mode, ASYNC)
         THEN [IdleRun EXCEPT !.st = "created", !.entry = "handle",
                              !.interp = "async", !.host = h]
         ELSE [IdleRun EXCEPT !.st = "failed", !.entry = "raised",
                              !.err = "RuntimeError", !.host = h]

\* _call_ambisync handing back the method alone, as a 1-tuple
call_ambisync_single(self, method) == TupleV(<<method>>)

\* _call_ambisync handing back the method itself:  return method
call_ambisync_bare(self, method) == method

\* AmbisyncBaseClass._call_ambisync:  return (method, method)
call_ambisync(self, method) == TupleV(<<method, method>>)

\* an argument of the _ambisync call in a method body is a plan entry
\* written out, or the expression  self._call_ambisync(method)
CallAmbisyncExpr(method) == [t |-> "call_ambisync", method |-> method]

\* the argument expressions of the method body evaluated on host self
Arguments(self, body) ==
    [ j \in DOMAIN body |->
        IF body[j].t = "call_ambisync"
        THEN call_ambisync(self, body[j].method)
        ELSE body[j] ]

\* the hosts whose method a plan embeds must exist when the body runs
MethodsExist(body) ==
    \A j \in DOMAIN body :
        body[j].t = "call_ambisync" => hosts[body[j].method.host].st = "ok"

\* a call of the ambisync method: its body evaluates the arguments and
\* calls self._ambisync with them
Ambisync(r, h) ==
    /\ runs[r].st = "idle"
    /\ \A q \in RunIds : q < r => runs[q].st # "idle"
    /\ hosts[h].st = "ok"
    /\ MethodsExist(plan_spec)
    /\ cur = 0
    /\ plan_spec' = Arguments(hosts[h], plan_spec)
    /\ runs' = [runs EXCEPT ![r] = ambisync(hosts[h], h)]
    /\ cur' = IF runs'[r].st = "running" THEN r ELSE 0
    /\ UNCHANGED hosts

(***************************************************************************)
(* _do_sync_call                                                           *)
(***************************************************************************)
\* SyncIteration with a loop that steps over the entry after each call
SyncIteration_skip(f, subroutine_spec) ==
    LET res == SyncSubroutine(subroutine_spec) IN
    IF ~res.ok
    THEN Failed(f, res.err)
    ELSE LET c == call_with_args(res.subroutine, f.ret)
             g == Called(f, res.slot, c)
         IN  IF c.out.ok
             THEN [Assigned(g, c.out.val) EXCEPT !.i = f.i + 2]
             ELSE Failed(g, c.out.err)

\* SyncIteration with the call wrapped in  try: ... except Exception: pass
SyncIteration_swallow(f, subroutine_spec) ==
    LET res == SyncSubroutine(subroutine_spec) IN
    IF ~res.ok
    THEN Failed(f, res.err)
    ELSE LET c == call_with_args(res.subroutine, f.ret)
             g == Called(f, res.slot, c)
         IN  IF c.out.ok
             THEN Assigned(g, c.out.val)
             ELSE Assigned(g, f.ret)

\* one iteration of the for loop on plan entry subroutine_spec
SyncIteration(f, subroutine_spec) ==
    LET res == SyncSubroutine(subroutine_spec) IN
    IF ~res.ok
    THEN Failed(f, res.err)
    ELSE LET c == call_with_args(res.subroutine, f.ret)
             g == Called(f, res.slot, c)
         IN  IF c.out.ok
             THEN Assigned(g, c.out.val)
             ELSE Failed(g, c.out.err)

SyncStep(r) ==
    /\ cur = r
    /\ runs[r].interp = "sync"
    /\ runs[r].st = "running"
    /\ runs[r].i < Len(plan_spec)
    /\ runs' = [runs EXCEPT ![r] = SyncIteration(@, plan_spec[@.i + 1])]
    /\ cur' = IF runs'[r].st = "running" THEN r ELSE 0
    /\ UNCHANGED <<hosts, plan_spec>>

SyncReturn(r) ==
    /\ cur = r
    /\ runs[r].interp = "sync"
    /\ runs[r].st = "running"
    /\ runs[r].i = Len(plan_spec)
    /\ runs' = [runs EXCEPT ![r] = Returned(@)]
    /\ cur' = 0
    /\ UNCHANGED <<hosts, plan_spec>>

(***************************************************************************)
(* _do_async_call                                                          *)
(***************************************************************************)
\* the caller awaits the coroutine object: its body starts to run
Drive(r) ==
    /\ cur = 0
    /\ runs[r].st = "created"
    /\ runs' = [runs EXCEPT ![r].st = "running"]
    /\ cur' = r
    /\ UNCHANGED <<hosts, plan_spec>>

\* AsyncIteration without the await: every call is made as a sync call
AsyncIteration_noawait(f, subroutine_spec) ==
    LET res == AsyncSubroutine(subroutine_spec) IN
    IF ~res.ok
    THEN Failed(f, res.err)
    ELSE LET c == call_with_args(res.subroutine, f.ret)
             g == Called(f, res.slot, c)
         IN  IF ~c.out.ok
             THEN Failed(g, c.out.err)
             ELSE Assigned(g, c.out.val)

\* AsyncIteration starting the coroutine as a task it does not wait for
AsyncIteration_spawn(f, subroutine_spec) ==
    LET res == AsyncSubroutine(subroutine_spec) IN
    IF ~res.ok
    THEN Failed(f, res.err)
    ELSE LET c == call_with_args(res.subroutine, f.ret)
             g == Called(f, res.slot, c)
         IN  IF ~c.out.ok
             THEN Failed(g, c.out.err)
             ELSE IF res.sync
                  THEN Assigned(g, c.out.val)
                  ELSE [Assigned(g, None) EXCEPT !.awaiting = c.out.val]

\* one iteration of the for loop up to the point where it either finishes
\* (sync call) or is suspended in `await`
AsyncIteration(f, subroutine_spec) ==
    LET res == AsyncSubroutine(subroutine_spec) IN
    IF ~res.ok
    THEN Failed(f, res.err)
    ELSE LET c == call_with_args(res.subroutine, f.ret)
             g == Called(f, res.slot, c)
         IN  IF ~c.out.ok
             THEN Failed(g, c.out.err)
             ELSE IF res.sync
                  THEN Assigned(g, c.out.val)
                  ELSE IF c.out.val.t = "coroutine"
                       THEN [g EXCEPT !.st = "suspended",
                                      !.awaiting = c.out.val]
                       ELSE Failed(g, "TypeError")   \* not awaitable

AsyncStep(r) ==
    /\ cur = r
    /\ runs[r].interp = "async"
    /\ runs[r].st = "running"
    /\ runs[r].i < Len(plan_spec)
    /\ runs' = [runs EXCEPT ![r] = AsyncIteration(@, plan_spec[@.i + 1])]
    /\ cur' = IF runs'[r].st = "running" THEN r ELSE 0
    /\ UNCHANGED <<hosts, plan_spec>>

\* AwaitDone running the entry again when the awaited coroutine raised
AwaitDone_retry(f) ==
    LET out == AwaitResult(f.awaiting)
        g == [f EXCEPT !.log[Len(f.log)].inner = InnerCalls(out)]
    IN  IF out.ok
        THEN Assigned(g, out.val)
        ELSE [g EXCEPT !.st = "running", !.awaiting = None]

\* the awaited coroutine has finished: `ret = await ...` gets its result,
\* or the exception it raised escapes
AwaitDone(f) ==
    LET out == AwaitResult(f.awaiting)
        g == [f EXCEPT !.log[Len(f.log)].inner = InnerCalls(out)]
    IN  IF out.ok THEN Assigned(g, out.val) ELSE Failed(g, out.err)

(***************************************************************************)
(* A plan run from its first entry to its end within one call: what the    *)
(* call of an ambisync method does when it is itself a step of a plan.     *)
(***************************************************************************)
\* _do_sync_call from frame f on: the for loop and the return
RECURSIVE do_sync_call(_, _)
do_sync_call(f, plan) ==
    IF f.st # "running"
    THEN f
    ELSE IF f.i = Len(plan)
         THEN Returned(f)
         ELSE do_sync_call(SyncIteration(f, plan[f.i + 1]), plan)

\* _do_async_call from frame f on, every await in it carried to its end
RECURSIVE do_async_call(_, _)
do_async_call(f, plan) ==
    CASE f.st = "suspended" -> do_async_call(AwaitDone(f), plan)
      [] f.st = "running" /\ f.i < Len(plan) ->
           do_async_call(AsyncIteration(f, plan[f.i + 1]), plan)
      [] f.st = "running" /\ f.i = Len(plan) -> Returned(f)
      [] OTHER -> f

\* what a finished frame hands to its caller: the result or the exception,
\* with the calls it made
FrameOutcome(f) ==
    IF f.st = "completed"
    THEN [ok |-> TRUE, val |-> f.result, calls |-> f.log]
    ELSE [ok |-> FALSE, err |-> f.err, calls |-> f.log]

\* my_method's body:  return self._ambisync(*my_method_plan)
my_method(h) ==
    LET f == ambisync(hosts[h], h) IN
    IF f.interp = "sync"
    THEN FrameOutcome(do_sync_call(f, my_method_plan))
    ELSE IF f.interp = "async"
         THEN Ret(Coroutine("_do_async_call", <<>>))
         ELSE Raise(f.err)

\* awaiting the coroutine object of _do_async_call(my_method_plan)
await_do_async_call(v) ==
    FrameOutcome(do_async_call([IdleRun EXCEPT !.st = "running",
                                               !.interp = "async"],
                               my_method_plan))

\* AsyncResume with ret kept in one place for all runs: the value assigned
\* is seen by every run that is under way
AsyncResume_shared(r) ==
    /\ cur = 0
    /\ runs[r].st = "suspended"
    /\ runs' = [q \in RunIds |->
                  IF q = r
                  THEN AwaitDone(runs[r])
                  ELSE IF runs[q].st \in {"running", "suspended"}
                       THEN [runs[q] EXCEPT !.ret = AwaitDone(runs[r]).ret]
                       ELSE runs[q]]
    /\ cur' = IF runs'[r].st = "running" THEN r ELSE 0
    /\ UNCHANGED <<hosts, plan_spec>>

AsyncResume(r) ==
    /\ cur = 0
    /\ runs[r].st = "suspended"
    /\ runs' = [runs EXCEPT ![r] = AwaitDone(@)]
    /\ cur' = IF runs'[r].st = "running" THEN r ELSE 0
    /\ UNCHANGED <<hosts, plan_spec>>

AsyncReturn(r) ==
    /\ cur = r
    /\ runs[r].interp = "async"
    /\ runs[r].st = "running"
    /\ runs[r].i = Len(plan_spec)
    /\ runs' = [runs EXCEPT ![r] = Returned(@)]
    /\ cur' = 0
    /\ UNCHANGED <<hosts, plan_spec>>

(***************************************************************************)
(* Specification                                                           *)
(***************************************************************************)
InitState ==
    /\ hosts = [h \in HostIds |-> NoHost]
    /\ runs = [r \in RunIds |-> IdleRun]
    /\ cur = 0

Init ==
    /\ InitState
    /\ plan_spec \in Plans

Next ==
    \/ \E h \in HostIds, mode \in ModeInputs : Construct(h, mode)
    \/ \E r \in RunIds, h \in HostIds : Ambisync(r, h)
    \/ \E r \in RunIds : SyncStep(r)
    \/ \E r \in RunIds : SyncReturn(r)
    \/ \E r \in RunIds : Drive(r)
    \/ \E r \in RunIds : AsyncStep(r)
    \/ \E r \in RunIds : AsyncResume(r)
    \/ \E r \in RunIds : AsyncReturn(r)

Spec == Init /\ [][Next]_vars

\* the same program, handed plans with a malformed entry
InitMalformed ==
    /\ InitState
    /\ plan_spec \in MalformedPlans

SpecMalformed == InitMalformed /\ [][Next]_vars

\* the same program, with method bodies that embed my_method of a host
EmbedEntries == { CallAmbisyncExpr(Method(h)) : h \in HostIds }

EmbedCore ==
    { TupleV(<<Func("sub1")>>),
      TupleV(<<Func("sync_sub2"), Func("async_sub2")>>),
      Func("opaque") }

EmbedPlans ==
    { p \in SeqsUpTo(EmbedCore \cup EmbedEntries, MaxPlanLen) :
        \E j \in DOMAIN p : p[j] \in EmbedEntries }

InitEmbed ==
    /\ InitState
    /\ plan_spec \in EmbedPlans

SpecEmbed == InitEmbed /\ [][Next]_vars

\* the same program with its scheduling: a thread that runs a plan goes
\* on to the next statement, and the event loop resumes a coroutine whose
\* awaited routine has finished.  Whether a caller ever calls a method or
\* ever drives a coroutine object is left open.
FairEntries ==
    { TupleV(<<Func("sub1")>>),
      TupleV(<<Func("sync_sub2"), Func("async_sub2")>>),
      TupleV(<<Func("boom"), Func("async_boom")>>) }

InitFair ==
    /\ InitState
    /\ plan_spec \in SeqsUpTo(FairEntries, MaxPlanLen)

Scheduled ==
    \E r \in RunIds :
        \/ SyncStep(r) \/ SyncReturn(r)
        \/ AsyncStep(r) \/ AsyncResume(r) \/ AsyncReturn(r)

Fairness == WF_vars(Scheduled)

SpecFair == InitFair /\ [][Next]_vars /\ Fairness

(***************************************************************************)
(* Vocabulary of the properties                                            *)
(***************************************************************************)
Done(r) == runs[r].st \in {"completed", "failed"}

\* the mode of the host a run was started on
ModeOf(r) == hosts[runs[r].host].ambisync_mode
Blocking(r) == runs[r].st # "idle" /\ Is(ModeOf(r), SYNC)
Suspending(r) == runs[r].st # "idle" /\ Is(ModeOf(r), ASYNC)

\* Dual step: a 2-tuple; Uniform step: a bare routine or a 1-tuple
IsDual(e) == e.t = "tuple" /\ Len(e.items) = 2
IsUniform(e) == e.t = "func" \/ (e.t = "tuple" /\ Len(e.items) = 1)

\* the two routines of a Dual step accept the same arguments and do the same
Equivalent(e) ==
    /\ Routine(e.items[1].name).params = Routine(e.items[2].name).params
    /\ Routine(e.items[1].name).body = Routine(e.items[2].name).body

DualsEquivalent(p) == \A j \in DOMAIN p : IsDual(p[j]) => Equivalent(p[j])

\* the objects a plan entry holds
EntryRoutines(e) ==
    IF e.t = "tuple" THEN { e.items[k] : k \in DOMAIN e.items } ELSE {e}

\* the calls a run has made for plan entry k
CallsOf(r, k) == { j \in DOMAIN runs[r].log : runs[r].log[j].step = k }

(***************************************************************************)
(* C1: for a plan whose Dual steps each pair two equivalent routines, a    *)
(* finished Blocking run and a finished (awaited) Suspending run of that   *)
(* plan have the same outcome: both completed with the same result, or     *)
(* both failed with the same error at the same step.                       *)
(***************************************************************************)
BlockingSuspendingAgree ==
    \A r1, r2 \in RunIds :
        ( /\ Blocking(r1) /\ Suspending(r2)
          /\ Done(r1) /\ Done(r2)
          /\ DualsEquivalent(plan_spec) )
        => /\ runs[r1].st = runs[r2].st
           /\ runs[r1].result = runs[r2].result
           /\ runs[r1].err = runs[r2].err
           /\ runs[r1].i = runs[r2].i

BlockingSuspendingAgreeWitness ==
    \E r1, r2 \in RunIds :
        /\ Blocking(r1) /\ Suspending(r2)
        /\ runs[r1].st = "completed" /\ runs[r2].st = "completed"
        /\ DualsEquivalent(plan_spec)
        /\ \E j \in DOMAIN plan_spec : IsDual(plan_spec[j])
        /\ runs[r1].result = StrV("done")
        /\ runs[r2].result = StrV("done")

(***************************************************************************)
(* C2: in both modes the calls a run makes are those of entry 1, entry 2,  *)
(* ... in declaration order, one call per entry, each to a routine of that *)
(* entry; a run that completes has made exactly one call per entry.        *)
(***************************************************************************)
InvocationOrder ==
    \A r \in RunIds :
        /\ \A j \in DOMAIN runs[r].log :
              /\ runs[r].log[j].step = j
              /\ runs[r].log[j].f \in EntryRoutines(plan_spec[j])
        /\ runs[r].st = "completed" => Len(runs[r].log) = Len(plan_spec)

InvocationOrderWitness ==
    \E r1, r2 \in RunIds :
        /\ Blocking(r1) /\ Suspending(r2)
        /\ runs[r1].st = "completed" /\ runs[r2].st = "completed"
        /\ Len(plan_spec) >= 3
        /\ Len(runs[r1].log) = Len(plan_spec)
        /\ Len(runs[r2].log) = Len(plan_spec)

(***************************************************************************)
(* C3: for every Dual step a run has reached exactly one call was made:    *)
(* to the first routine (element 0) under SYNC, to the second (element 1)  *)
(* under ASYNC; a Dual step not yet reached has no call.                   *)
(***************************************************************************)
Reached(r, k) ==
    \/ k <= runs[r].i
    \/ k = runs[r].i + 1 /\ runs[r].st \in {"suspended", "failed"}

DualExactlyOne ==
    \A r \in RunIds : \A k \in DOMAIN plan_spec :
        IsDual(plan_spec[k]) =>
            /\ Reached(r, k) => Cardinality(CallsOf(r, k)) = 1
            /\ ~Reached(r, k) => CallsOf(r, k) = {}
            /\ \A j \in CallsOf(r, k) :
                  /\ Blocking(r) =>
                        /\ runs[r].log[j].slot = 0
                        /\ runs[r].log[j].f = plan_spec[k].items[1]
                  /\ Suspending(r) =>
                        /\ runs[r].log[j].slot = 1
                        /\ runs[r].log[j].f = plan_spec[k].items[2]

DualExactlyOneWitness ==
    \E r1, r2 \in RunIds : \E k \in DOMAIN plan_spec :
        /\ IsDual(plan_spec[k])
        /\ Blocking(r1) /\ Suspending(r2)
        /\ k <= runs[r1].i /\ k <= runs[r2].i
        /\ \E j \in CallsOf(r1, k) : runs[r1].log[j].f = Func("sync_sub2")
        /\ \E j \in CallsOf(r2, k) : runs[r2].log[j].f = Func("async_sub2")

(***************************************************************************)
(* C4: a step routine that raises E aborts the run in both modes: the call *)
(* that raised is the last call the run ever makes (no later step, no      *)
(* retry, no other routine), the run is failed with exactly E, and no      *)
(* result is returned.                                                     *)
(***************************************************************************)
\* the call c reaches a routine whose body raises
RaisingCall(c) ==
    /\ c.f.t = "func"
    /\ Routine(c.f.name).body.t = "raise"
    /\ CanBind(Routine(c.f.name).params, c.args, c.kwds)

AbortOnRaise ==
    \A r \in RunIds :
        LET f == runs[r]
            n == Len(f.log)
        IN  /\ \A j \in DOMAIN f.log :
                  RaisingCall(f.log[j]) =>
                      /\ j = n
                      /\ \/ /\ f.st = "failed"
                            /\ f.err = Routine(f.log[j].f.name).body.err
                         \/ f.st = "suspended" /\ Suspending(r)
            /\ f.st = "failed" =>
                  /\ f.result = NoResult
                  /\ n = f.i + 1
                  /\ f.log[n].step = f.i + 1
                  /\ Cardinality(CallsOf(r, f.i + 1)) = 1

AbortOnRaiseWitness ==
    \E r1, r2 \in RunIds :
        /\ Blocking(r1) /\ Suspending(r2)
        /\ runs[r1].st = "failed" /\ runs[r2].st = "failed"
        /\ runs[r1].err = "E1" /\ runs[r2].err = "E1"
        /\ runs[r1].i >= 1 /\ runs[r2].i >= 1
        /\ Len(plan_spec) > runs[r1].i + 1
        /\ runs[r1].hist[1] = IntV(7)

(***************************************************************************)
(* C5 as claimed: a plan with a malformed entry makes the entry point fail *)
(* with a StepSpecError when it is called, in both modes, before any       *)
(* routine of the plan is called: no call is ever logged, no handle is     *)
(* returned, nothing completes, and the only failure is StepSpecError.     *)
(***************************************************************************)
MalformedRejectedAtConstruction ==
    \A r \in RunIds :
        IsMalformedPlan(plan_spec) =>
            /\ runs[r].log = <<>>
            /\ runs[r].st \notin {"created", "suspended", "completed"}
            /\ runs[r].st = "failed" => runs[r].err = "StepSpecError"

(***************************************************************************)
(* C5 as amended: the shape of a plan entry is not checked when the entry  *)
(* point is called and no StepSpecError exists.  On an ASYNC host the      *)
(* entry point returns the handle.  An empty tuple raises IndexError and a *)
(* member that cannot be called raises TypeError only when the run reaches *)
(* that entry and uses that member, after one call for each earlier entry; *)
(* a tuple of three elements is accepted and run as its element 0 (SYNC)   *)
(* or element 1 (ASYNC).                                                   *)
(***************************************************************************)
MalformedDeferredToExecution ==
    \A r \in RunIds :
        LET f == runs[r]
            n == Len(f.log)
        IN  /\ f.err # "StepSpecError"
            /\ Suspending(r) => f.entry = "handle"
            /\ f.st = "failed" =>
                  /\ f.i < Len(plan_spec)
                  /\ \A k \in 1..f.i : Cardinality(CallsOf(r, k)) = 1
                  /\ plan_spec[f.i + 1] = TupleV(<<>>) =>
                        f.err = "IndexError" /\ n = f.i
                  /\ f.err = "IndexError" => plan_spec[f.i + 1] = TupleV(<<>>)
            /\ \A j \in DOMAIN f.log :
                  LET e == plan_spec[f.log[j].step] IN
                  /\ f.log[j].f.t # "func" =>
                        j = n /\ f.st = "failed" /\ f.err = "TypeError"
                  /\ (e.t = "tuple" /\ Len(e.items) >= 2) =>
                        /\ Blocking(r) => f.log[j].f = e.items[1]
                        /\ Suspending(r) => f.log[j].f = e.items[2]

MalformedDeferredToExecutionWitness ==
    \E r1, r2 \in RunIds :
        /\ Blocking(r1) /\ Suspending(r2)
        /\ Len(plan_spec[1].items) = 3
        /\ runs[r1].st = "failed" /\ runs[r2].st = "failed"
        /\ runs[r1].err = "IndexError" /\ runs[r2].err = "IndexError"
        /\ runs[r1].i = 1 /\ runs[r2].i = 1
        /\ runs[r1].log[1].f = Func("sub1")
        /\ runs[r2].log[1].f = Func("async_sub1")

(***************************************************************************)
(* C6: when a step returns an args, the call for the next entry is made    *)
(* with exactly its positional values, in order, and its named values, in  *)
(* both modes; the plan (sub1,), (sync_sub2, async_sub2), (sub3,) calls    *)
(* the second entry with (5), the third with (11, "foo"), and yields       *)
(* "done".                                                                 *)
(***************************************************************************)
ExamplePlan ==
    << TupleV(<<Func("sub1")>>),
       TupleV(<<Func("sync_sub2"), Func("async_sub2")>>),
       TupleV(<<Func("sub3")>>) >>

ArgsThreading ==
    \A r \in RunIds :
        LET f == runs[r] IN
        /\ \A j \in DOMAIN f.hist :
              (f.hist[j].t = "args" /\ j + 1 \in DOMAIN f.log) =>
                  /\ f.log[j + 1].args = f.hist[j].args
                  /\ f.log[j + 1].kwds = f.hist[j].kwds
        /\ (plan_spec = ExamplePlan /\ Done(r)) =>
              /\ f.st = "completed"
              /\ f.result = StrV("done")
              /\ f.log[2].args = <<IntV(5)>>
              /\ f.log[3].args = <<IntV(11), StrV("foo")>>

ArgsThreadingWitness ==
    \E r1, r2 \in RunIds :
        /\ plan_spec = ExamplePlan
        /\ Blocking(r1) /\ Suspending(r2)
        /\ runs[r1].st = "completed" /\ runs[r2].st = "completed"
        /\ runs[r1].log[3].args = <<IntV(11), StrV("foo")>>
        /\ runs[r2].log[3].args = <<IntV(11), StrV("foo")>>

(***************************************************************************)
(* C7: the call for the first entry of a plan is made with no arguments,   *)
(* and when a step returns a value that is not an args (None or an opaque  *)
(* value such as an integer) the call for the next entry is made with no   *)
(* arguments, in both modes, and the value is an argument of no later call *)
(* of the run.                                                             *)
(***************************************************************************)
NoArguments(c) == c.args = <<>> /\ c.kwds = <<>>

\* the values a call passes, positional and named
PassedValues(c) ==
    { c.args[j] : j \in DOMAIN c.args } \cup { c.kwds[j][2] : j \in DOMAIN c.kwds }

OpaqueDiscarded ==
    \A r \in RunIds :
        LET f == runs[r] IN
        /\ f.log # <<>> => NoArguments(f.log[1])
        /\ \A j \in DOMAIN f.hist :
              f.hist[j].t # "args" =>
                  /\ j + 1 \in DOMAIN f.log => NoArguments(f.log[j + 1])
                  /\ \A k \in DOMAIN f.log :
                        k > j => f.hist[j] \notin PassedValues(f.log[k])

OpaqueDiscardedWitness ==
    \E r1, r2 \in RunIds :
        /\ Blocking(r1) /\ Suspending(r2)
        /\ Len(runs[r1].log) >= 2 /\ Len(runs[r2].log) >= 2
        /\ runs[r1].hist[1] = IntV(7) /\ runs[r2].hist[1] = IntV(7)
        /\ Done(r1) /\ Done(r2)

(***************************************************************************)
(* C8: a run of a non-empty plan that completes yields exactly the value   *)
(* the last step returned, whatever its type; an args returned by the last *)
(* step is the result itself.                                              *)
(***************************************************************************)
LastStepIsResult ==
    \A r \in RunIds :
        LET f == runs[r]
            n == Len(plan_spec)
        IN  (f.st = "completed" /\ n > 0) =>
                /\ Len(f.hist) = n
                /\ f.result = f.hist[n]
                /\ plan_spec[n] = TupleV(<<Func("sub1")>>) =>
                      f.result = Args(<<IntV(5)>>, <<>>)

LastStepIsResultWitness ==
    \E r1, r2 \in RunIds :
        /\ Blocking(r1) /\ Suspending(r2)
        /\ runs[r1].st = "completed" /\ runs[r2].st = "completed"
        /\ Len(plan_spec) >= 2
        /\ IsDual(plan_spec[Len(plan_spec)])
        /\ runs[r1].result = Args(<<IntV(11), StrV("foo")>>, <<>>)
        /\ runs[r2].result = Args(<<IntV(11), StrV("foo")>>, <<>>)

(***************************************************************************)
(* C9: when a step routine raises E, on a SYNC host the call of the entry  *)
(* point itself raises E; on an ASYNC host the call of the entry point has *)
(* returned a handle without raising, and it is the handle that fails with *)
(* E once it is awaited.                                                   *)
(***************************************************************************)
ErrorSurface ==
    \A r \in RunIds :
        LET f == runs[r]
            n == Len(f.log)
        IN  /\ Suspending(r) => f.entry = "handle"
            /\ Blocking(r) => f.entry \in {"active", "returned", "raised"}
            /\ f.entry = "raised" <=> (Blocking(r) /\ f.st = "failed")
            /\ (f.st = "failed" /\ n > 0 /\ RaisingCall(f.log[n])) =>
                  f.err = Routine(f.log[n].f.name).body.err
            /\ f.st = "created" => f.log = <<>> /\ f.err = "none"

ErrorSurfaceWitness ==
    \E r1, r2 \in RunIds :
        /\ Blocking(r1) /\ Suspending(r2)
        /\ runs[r1].st = "failed" /\ runs[r2].st = "failed"
        /\ runs[r1].entry = "raised" /\ runs[r2].entry = "handle"
        /\ runs[r1].err = "E1" /\ runs[r2].err = "E1"

(***************************************************************************)
(* C10: __init__ with a mode that is neither SYNC nor ASYNC raises         *)
(* AmbisyncError and leaves no host to call; with SYNC or ASYNC it         *)
(* succeeds and stores that token as the host's mode.                      *)
(***************************************************************************)
ConstructChecksMode ==
    [][ /\ \A h \in HostIds, m \in ModeInputs :
              Construct(h, m) =>
                  IF m = SYNC \/ m = ASYNC
                  THEN hosts'[h].st = "ok" /\ hosts'[h].ambisync_mode = m
                  ELSE /\ hosts'[h].st = "raised"
                       /\ hosts'[h].err = "AmbisyncError"
                       /\ hosts'[h].ambisync_mode = None
        /\ \A r \in RunIds :
              runs'[r].st # "idle" => hosts'[runs'[r].host].st = "ok"
      ]_vars

ConstructChecksModeWitness ==
    \E h1, h2 \in HostIds :
        /\ hosts[h1].st = "raised" /\ hosts[h1].err = "AmbisyncError"
        /\ hosts[h2].st = "ok" /\ hosts[h2].ambisync_mode = ASYNC
        /\ \E r \in RunIds : runs[r].st # "idle" /\ runs[r].host = h2


(***************************************************************************)
(* C11: _call_ambisync(method) hands back a tuple of exactly two elements, *)
(* both of them the given method; evaluating it in a method body changes   *)
(* no host and no other argument of the _ambisync call.                    *)
(***************************************************************************)
EmbedPair ==
    [][ \A r \in RunIds, h \in HostIds :
          Ambisync(r, h) =>
              /\ hosts' = hosts
              /\ \A j \in DOMAIN plan_spec :
                    IF plan_spec[j].t = "call_ambisync"
                    THEN /\ plan_spec'[j].t = "tuple"
                         /\ Len(plan_spec'[j].items) = 2
                         /\ plan_spec'[j].items[1] = plan_spec[j].method
                         /\ plan_spec'[j].items[2] = plan_spec[j].method
                    ELSE plan_spec'[j] = plan_spec[j]
      ]_vars

EmbedPairWitness ==
    \E r \in RunIds, j \in DOMAIN plan_spec :
        /\ plan_spec[j] = TupleV(<<Method(2), Method(2)>>)
        /\ hosts[2].st = "ok"
        /\ runs[r].st = "completed"
        /\ runs[r].log[j].f = Method(2)


(***************************************************************************)
(* C12: in ASYNC mode a run that made the call for a 2-tuple entry waits   *)
(* in the await: while the coroutine is in flight the run makes no call    *)
(* and stays at that entry, and the call for the next entry is made only   *)
(* after the coroutine has finished.  A run has a routine in flight only   *)
(* while it is suspended, and then exactly the one of its current entry.   *)
(***************************************************************************)
OneRoutineInFlight ==
    [][ \A r \in RunIds :
          /\ runs[r].st = "suspended" =>
                /\ Len(runs'[r].log) = Len(runs[r].log)
                /\ runs'[r].st \in {"suspended", "running", "failed"}
                /\ runs'[r].st = "running" => runs'[r].i = runs[r].i + 1
                /\ runs'[r].st = "failed" => runs'[r].i = runs[r].i
          /\ (runs'[r].awaiting # None) <=> (runs'[r].st = "suspended")
          /\ runs'[r].st = "suspended" =>
                /\ Len(runs'[r].log) = runs'[r].i + 1
                /\ runs'[r].log[runs'[r].i + 1].step = runs'[r].i + 1
                /\ runs'[r].awaiting.t = "coroutine"
          /\ Len(runs'[r].log) > Len(runs[r].log) =>
                /\ runs[r].awaiting = None
                /\ Len(runs'[r].log) = Len(runs[r].log) + 1
                /\ Len(runs[r].log) = runs[r].i
      ]_vars

OneRoutineInFlightWitness ==
    /\ runs[1].st = "suspended" /\ runs[2].st = "suspended"
    /\ runs[1].i = 1 /\ Len(runs[1].log) = 2 /\ Len(runs[1].hist) = 1
    /\ runs[2].i = 1 /\ Len(runs[2].log) = 2 /\ Len(runs[2].hist) = 1
    /\ Len(plan_spec) = 3


(***************************************************************************)
(* C13: a run is suspended only on a host in ASYNC mode and only at a      *)
(* 2-tuple entry; a run on a SYNC host is never suspended and has nothing  *)
(* in flight; the call for a bare or 1-tuple entry is finished in the step *)
(* that makes it, in ASYNC mode too: its value is assigned, or the call    *)
(* itself raised.                                                          *)
(***************************************************************************)
SuspendOnlyAtDual ==
    \A r \in RunIds :
        LET f == runs[r] IN
        /\ f.st = "suspended" =>
              /\ Suspending(r)
              /\ IsDual(plan_spec[f.i + 1])
              /\ f.log[f.i + 1].slot = 1
        /\ Blocking(r) => f.st # "suspended" /\ f.awaiting = None
        /\ \A k \in DOMAIN f.log :
              IsUniform(plan_spec[k]) =>
                  \/ k <= Len(f.hist)
                  \/ /\ f.st = "failed" /\ f.i + 1 = k
                     /\ ~CallObj(f.log[k].f, f.log[k].args, f.log[k].kwds).ok

SuspendOnlyAtDualWitness ==
    \E r1, r2 \in RunIds :
        /\ Blocking(r1) /\ Suspending(r2)
        /\ Len(plan_spec) = 3
        /\ IsUniform(plan_spec[1]) /\ IsDual(plan_spec[2])
        /\ IsUniform(plan_spec[3])
        /\ runs[r1].st = "completed" /\ Len(runs[r1].log) = 3
        /\ runs[r2].st = "suspended" /\ runs[r2].i = 1
        /\ Len(runs[r2].hist) = 1


(***************************************************************************)
(* C14: a plan entry made by _call_ambisync(m) acts as one step of the     *)
(* outer plan.  Once the step for it is over, and the call gave m the      *)
(* argument it takes, m's whole plan has run in order inside that step and *)
(* m's final result ("done") is the value assigned to the outer ret: not a *)
(* coroutine object left unawaited and not an exception.                   *)
(* EmbeddedRunsWhole states this for any host's method; EmbeddedRunsWhole- *)
(* SameMode states it for a method of a host whose mode is the mode of the *)
(* host the outer plan runs on.                                            *)
(***************************************************************************)
\* the step of run r for entry k is over
StepOver(r, k) ==
    /\ k \in DOMAIN runs[r].log
    /\ ~(runs[r].st = "suspended" /\ runs[r].i + 1 = k)

\* the calls c made inside are those of my_method's plan, entry by entry
RanMyMethodPlan(c) ==
    /\ Len(c.inner) = Len(my_method_plan)
    /\ \A j \in DOMAIN c.inner :
          /\ c.inner[j].step = j
          /\ c.inner[j].f \in EntryRoutines(my_method_plan[j])

EmbeddedStepActsAsStep(r, k) ==
    LET f == runs[r]
        c == f.log[k]
    IN  /\ k <= Len(f.hist)
        /\ f.hist[k] = StrV("done")
        /\ RanMyMethodPlan(c)
        /\ k + 1 \in DOMAIN f.log => NoArguments(f.log[k + 1])

\* C14 for the method of any host
EmbeddedRunsWhole ==
    \A r \in RunIds : \A k \in DOMAIN runs[r].log :
        ( /\ runs[r].log[k].f.t = "method"
          /\ CanBind(my_method_params, runs[r].log[k].args, runs[r].log[k].kwds)
          /\ StepOver(r, k) )
        => EmbeddedStepActsAsStep(r, k)

\* C14 for the method of a host in the mode of the outer host
EmbeddedRunsWholeSameMode ==
    \A r \in RunIds : \A k \in DOMAIN runs[r].log :
        ( /\ runs[r].log[k].f.t = "method"
          /\ Is(hosts[runs[r].log[k].f.host].ambisync_mode, ModeOf(r))
          /\ CanBind(my_method_params, runs[r].log[k].args, runs[r].log[k].kwds)
          /\ StepOver(r, k) )
        => EmbeddedStepActsAsStep(r, k)

EmbeddedRunsWholeSameModeWitness ==
    \E r1, r2 \in RunIds :
        /\ Blocking(r1) /\ Suspending(r2)
        /\ hosts[2].st = "ok" /\ Is(hosts[2].ambisync_mode, ASYNC)
        /\ Len(plan_spec) = 3
        /\ plan_spec[2] = TupleV(<<Method(2), Method(2)>>)
        /\ runs[r2].st = "completed" /\ runs[r2].hist[2] = StrV("done")
        /\ runs[r2].log[2].args = <<IntV(5)>>
        /\ runs[r2].log[2].inner[2].f = Func("async_sub2_example")
        /\ Len(runs[r2].log) = 3
        /\ Done(r1)


(***************************************************************************)
(* C15: every call of the entry point has its own frame.  An ASYNC run    *)
(* interleaved in any way with another run has, at every moment, made the  *)
(* calls, with the arguments, and the assignments to ret, that the same    *)
(* call makes when its coroutine is run alone from start to end; its ret   *)
(* is the value its own last finished entry assigned, its position the     *)
(* number of its own finished entries; once over, its frame is the frame   *)
(* of the run alone, with the same result or error.                        *)
(***************************************************************************)
\* the frame of run r's call had its coroutine been run alone to its end
Alone(r) ==
    do_async_call([ambisync(hosts[runs[r].host], runs[r].host)
                      EXCEPT !.st = "running"],
                  plan_spec)

\* sequence s is an initial part of sequence t
IsPrefix(s, t) == Len(s) <= Len(t) /\ s = SubSeq(t, 1, Len(s))

\* the log without what a call in flight has not yet recorded
Args_of(log) ==
    [ j \in DOMAIN log |->
        [step |-> log[j].step, slot |-> log[j].slot, f |-> log[j].f,
         args |-> log[j].args, kwds |-> log[j].kwds] ]

AsAlone(r) ==
    LET f == runs[r] IN
    /\ IsPrefix(Args_of(f.log), Args_of(Alone(r).log))
    /\ IsPrefix(f.hist, Alone(r).hist)
    /\ f.i = Len(f.hist)
    /\ f.st \in {"running", "suspended"} =>
          f.ret = IF f.i = 0 THEN None ELSE f.hist[f.i]
    /\ Done(r) => f = Alone(r)

EmptyPlanYieldsNone ==
    Len(plan_spec) = 0 =>
        \A r \in RunIds :
            LET f == runs[r] IN
            /\ f.log = <<>> /\ f.hist = <<>> /\ f.i = 0
            /\ f.st \notin {"suspended", "failed"}
            /\ f.awaiting = None
            /\ f.st = "completed" => f.result = None
            /\ Blocking(r) => f.entry \in {"active", "returned"}
            /\ Suspending(r) => f.entry = "handle"

EmptyPlanYieldsNoneWitness ==
    \E r1, r2 \in RunIds :
        /\ Len(plan_spec) = 0
        /\ Blocking(r1) /\ Suspending(r2)
        /\ runs[r1].st = "completed" /\ runs[r1].result = None
        /\ runs[r2].st = "completed" /\ runs[r2].result = None
        /\ runs[r2].entry = "handle"


(***************************************************************************)
(* C17: a run goes from not started (idle, or a coroutine object not yet   *)
(* driven) to running at entry 1, then from running at entry i to          *)
(* suspended at entry i (and back to running at entry i + 1), to running   *)
(* at entry i + 1, to failed at entry i, or, after the last entry, to      *)
(* completed.  The position never goes back and never skips an entry, and  *)
(* a completed or failed run never changes again.                          *)
(***************************************************************************)
LifecycleStep(f, g) ==
    \/ g = f
    \/ f.st = "idle" /\ g.st \in {"created", "running"} /\ g.i = 0
    \/ f.st = "created" /\ g.st = "running" /\ g.i = 0
    \/ /\ f.st = "running" /\ f.i < Len(plan_spec)
       /\ \/ g.st = "running" /\ g.i = f.i + 1
          \/ g.st = "suspended" /\ g.i = f.i
          \/ g.st = "failed" /\ g.i = f.i
    \/ /\ f.st = "running" /\ f.i = Len(plan_spec)
       /\ g.st = "completed" /\ g.i = f.i
    \/ /\ f.st = "suspended"
       /\ \/ g.st = "running" /\ g.i = f.i + 1
          \/ g.st = "failed" /\ g.i = f.i

Lifecycle ==
    [][ \A r \in RunIds :
          /\ LifecycleStep(runs[r], runs'[r])
          /\ runs'[r].i \in 0..Len(plan_spec)
      ]_vars

LifecycleWitness ==
    \E r1, r2 \in RunIds :
        /\ Suspending(r1) /\ Suspending(r2)
        /\ Len(plan_spec) = 3 /\ IsDual(plan_spec[2])
        /\ runs[r1].st = "failed" /\ runs[r1].i = 2
        /\ Len(runs[r1].log) = 3
        /\ runs[r2].st = "suspended" /\ runs[r2].i = 1


(***************************************************************************)
(* C18: once __init__ has succeeded nothing changes the host: not a call   *)
(* of the entry point, not a step of either interpreter, not               *)
(* _call_ambisync, not the end of a run.  The mode of a host is always     *)
(* SYNC or ASYNC, so every call of _ambisync (of an outer method or of an  *)
(* embedded one) goes to _do_sync_call on a SYNC host and to               *)
(* _do_async_call on an ASYNC host, and never raises RuntimeError.         *)
(***************************************************************************)
ModeFrozen ==
    [][ /\ \A h \in HostIds :
              /\ hosts[h].st # "none" => hosts'[h] = hosts[h]
              /\ hosts'[h].st = "ok" =>
                    hosts'[h].ambisync_mode \in {SYNC, ASYNC}
        /\ \A r \in RunIds :
              runs'[r].st # "idle" =>
                  /\ runs'[r].err # "RuntimeError"
                  /\ runs'[r].interp =
                        IF hosts'[runs'[r].host].ambisync_mode = SYNC
                        THEN "sync" ELSE "async"
                  /\ runs[r].st # "idle" =>
                        /\ runs'[r].interp = runs[r].interp
                        /\ runs'[r].host = runs[r].host
      ]_vars

ModeFrozenWitness ==
    \E r1, r2 \in RunIds :
        /\ hosts[1].ambisync_mode = SYNC /\ hosts[2].ambisync_mode = ASYNC
        /\ runs[r1].host = 1 /\ runs[r1].interp = "sync"
        /\ runs[r2].host = 2 /\ runs[r2].interp = "async"
        /\ Done(r1) /\ runs[r2].st = "completed"
        /\ \E k \in DOMAIN runs[r2].log : runs[r2].log[k].f = Method(2)


(***************************************************************************)
(* C19: on an ASYNC host the call of the entry point only creates the      *)
(* coroutine object: it makes no call of a plan entry, and as long as the  *)
(* object is not driven none is made; the first step runs only after the   *)
(* caller drives it.  On a SYNC host the call of the entry point has       *)
(* returned exactly when the run is over: it returns after one call per    *)
(* entry, or raises at the entry that failed, and until then the caller    *)
(* (and every other run) waits.                                            *)
(***************************************************************************)
EntryPointTiming ==
    [][ \A r \in RunIds :
          LET f == runs[r]
              g == runs'[r]
          IN
          /\ ( /\ f.st = "idle" /\ g.st # "idle"
               /\ Is(hosts'[g.host].ambisync_mode, ASYNC) ) =>
                  /\ g.st = "created" /\ g.entry = "handle"
                  /\ g.log = <<>> /\ g.hist = <<>> /\ g.i = 0
                  /\ cur' = 0
          /\ g.st = "created" => g.log = <<>> /\ g.hist = <<>> /\ g.i = 0
          /\ (f.st = "created" /\ g # f) =>
                  g = [f EXCEPT !.st = "running"] /\ cur' = r
          /\ ( /\ g.st # "idle"
               /\ Is(hosts'[g.host].ambisync_mode, SYNC) ) =>
                  /\ g.entry = "active" => g.st = "running" /\ cur' = r
                  /\ g.entry = "returned" =>
                        g.st = "completed" /\ Len(g.log) = Len(plan_spec')
                  /\ g.entry = "raised" => g.st = "failed"
                  /\ g.entry \in {"active", "returned", "raised"}
      ]_vars

EntryPointTimingWitness ==
    \E r1, r2 \in RunIds :
        /\ Blocking(r1) /\ Suspending(r2)
        /\ Len(plan_spec) = 3
        /\ runs[r1].entry = "returned" /\ Len(runs[r1].log) = 3
        /\ runs[r2].st = "created" /\ runs[r2].entry = "handle"
        /\ runs[r2].log = <<>>


(***************************************************************************)
(* C20: every run that has started ends: with routines that terminate and  *)
(* a scheduler that resumes suspended runs, a run of a plan of n entries   *)
(* that is running or suspended is eventually completed or failed.  It     *)
(* makes at most n calls, one per entry, exactly n when it completes, and  *)
(* when it fails at entry i it has made at most i.                         *)
(***************************************************************************)
BoundedCalls(r) ==
    LET f == runs[r] IN
    /\ Len(f.log) <= Len(plan_spec)
    /\ \A j, k \in DOMAIN f.log : j # k => f.log[j].step # f.log[k].step
    /\ f.st = "completed" => Len(f.log) = Len(plan_spec)
    /\ f.st = "failed" => Len(f.log) \in {f.i, f.i + 1}

Terminates ==
    /\ [](\A r \in RunIds : BoundedCalls(r))
    /\ \A r \in RunIds :
          (runs[r].st \in {"running", "suspended"}) ~> Done(r)

TerminatesWitness ==
    \E r1, r2 \in RunIds :
        /\ Blocking(r1) /\ Suspending(r2)
        /\ Len(plan_spec) = 3
        /\ IsDual(plan_spec[2])
        /\ runs[r1].st = "failed" /\ runs[r1].i = 2
        /\ runs[r2].st = "failed" /\ runs[r2].i = 2
        /\ Len(runs[r2].log) = 3

=============================================================================
